---- MODULE Spec2Model ----
(***************************************************************************)
(* A model of the Diagram tree of diagramatics (src/unnamed/part_000):     *)
(* the objects of the JavaScript heap (Diagram nodes and Path objects,     *)
(* each with an identity), the operations of the two classes written in    *)
(* heap-passing style, and a state machine that applies them to a family   *)
(* of diagrams built with the library's own constructors.                  *)
(*                                                                         *)
(* Numbers are integers: on the integer points and quarter turns used here *)
(* IEEE doubles add, subtract and halve exactly.                           *)
(***************************************************************************)
EXTENDS Integers, Sequences, FiniteSets, TLC

VARIABLES heap, last, nops

vars == <<heap, last, nops>>

(***************************************************************************)
(* Bounds of the model.                                                    *)
(***************************************************************************)
\* the number of tree-producing calls made after the diagrams are built
MaxOps == 2

(***************************************************************************)
(* Values.                                                                 *)
(***************************************************************************)
\* the value of an unset color (a property JSON.stringify drops)
Undefined == "undefined"
\* the value of an omitted pivot argument
NoPivot == <<>>
\* IEEE Infinity: a number above every coordinate of the model
Infinity == 1000000
\* IEEE NaN, the value of (Infinity + -Infinity) / 2
NaN == 7777777

DiagramType == [Polygon |-> "polygon", Curve |-> "curve", Diagram |-> "diagram"]

Anchor ==
    [TopLeft      |-> "top-left",
     TopCenter    |-> "top-center",
     TopRight     |-> "top-right",
     CenterLeft   |-> "center-left",
     CenterCenter |-> "center-center",
     CenterRight  |-> "center-right",
     BottomLeft   |-> "bottom-left",
     BottomCenter |-> "bottom-center",
     BottomRight  |-> "bottom-right"]

Anchors == {Anchor[k] : k \in DOMAIN Anchor}

(***************************************************************************)
(* Vector2 (linear_algebra.js, not among the sources): the standard 2D     *)
(* vector operations. An angle is a number of quarter turns, the angles    *)
(* at which the rotation of an integer point is an integer point.          *)
(***************************************************************************)
Vector2(x, y) == <<x, y>>

Vector2_add(a, b) == <<a[1] + b[1], a[2] + b[2]>>

Vector2_sub(a, b) == <<a[1] - b[1], a[2] - b[2]>>

Cos(q) == CASE q % 4 = 0 -> 1 [] q % 4 = 1 -> 0 [] q % 4 = 2 -> -1 [] OTHER -> 0

Sin(q) == CASE q % 4 = 0 -> 0 [] q % 4 = 1 -> 1 [] q % 4 = 2 -> 0 [] OTHER -> -1

Vector2_rotate(v, q) == <<v[1] * Cos(q) - v[2] * Sin(q), v[1] * Sin(q) + v[2] * Cos(q)>>

\* v.scale(t) for t = t2 / 2, a number of halves: the result, in halves
Vector2_scale(v, t2) == <<v[1] * t2, v[2] * t2>>

Math_min(a, b) == IF a < b THEN a ELSE b

Math_max(a, b) == IF a > b THEN a ELSE b

(***************************************************************************)
(* The heap: h.d is the sequence of Diagram objects and h.p the sequence   *)
(* of Path objects, an object's identity being its index. A children or    *)
(* paths map is a function from names to identities. Every operation takes *)
(* a heap and returns [h: the heap after it, r: what it returns, err: the  *)
(* message of the Error it threw, or ""].                                  *)
(***************************************************************************)
EmptyMap == [k \in {} |-> 0]

Put(m, k, v) == [x \in DOMAIN m \cup {k} |-> IF x = k THEN v ELSE m[x]]

EmptyHeap == [d |-> <<>>, p |-> <<>>]

Ok(h, r) == [h |-> h, r |-> r, err |-> ""]

Throw(h, msg) == [h |-> h, r |-> 0, err |-> msg]

\* new Diagram(type_): the field initialisers and the constructor
new_Diagram(h, type_) ==
    Ok([h EXCEPT !.d = Append(@, [type         |-> type_,
                                  children     |-> EmptyMap,
                                  paths        |-> EmptyMap,
                                  origin       |-> Vector2(0, 0),
                                  color_stroke |-> Undefined,
                                  color_fill   |-> Undefined])],
       Len(h.d) + 1)

\* new Path(points)
new_Path(h, points) == Ok([h EXCEPT !.p = Append(@, [points |-> points])], Len(h.p) + 1)

\* names[i] of a JavaScript array: undefined past its end, and as a key "undefined"
NameAt(names, i) == IF i <= Len(names) THEN names[i] ELSE Undefined

RECURSIVE AssignAll(_, _, _, _)
\* for (let i in objs) { map[names[i]] = objs[i]; }
AssignAll(m, objs, names, i) ==
    IF i > Len(objs) THEN m
    ELSE AssignAll(Put(m, NameAt(names, i), objs[i]), objs, names, i + 1)

\* Diagram.add_childs: no check of the type of this
add_childs(h, id, childs, names) ==
    Ok([h EXCEPT !.d[id].children = AssignAll(@, childs, names, 1)], id)

\* Diagram.add_paths
add_paths(h, id, paths, names) ==
    IF h.d[id].type = DiagramType.Diagram
    THEN Throw(h, "Diagram cannot have paths")
    ELSE Ok([h EXCEPT !.d[id].paths = AssignAll(@, paths, names, 1)], id)

(***************************************************************************)
(* Path.                                                                   *)
(***************************************************************************)
\* Path.copy: a new Path over new Vector2s of the same coordinates
Path_copy(h, pid) ==
    new_Path(h, [i \in DOMAIN h.p[pid].points |-> Vector2(h.p[pid].points[i][1], h.p[pid].points[i][2])])

\* Path.translate
Path_translate(h, pid, v) ==
    LET newp == Path_copy(h, pid)
    IN  Ok([newp.h EXCEPT !.p[newp.r].points = [i \in DOMAIN @ |-> Vector2_add(@[i], v)]], newp.r)

\* Path.rotate
Path_rotate(h, pid, angle, pivot) ==
    LET newp == Path_copy(h, pid)
    IN  Ok([newp.h EXCEPT !.p[newp.r].points =
                [i \in DOMAIN @ |-> Vector2_add(Vector2_rotate(Vector2_sub(@[i], pivot), angle), pivot)]],
           newp.r)

\* a get_parametric_point that refuses every path of two points or more
get_parametric_point_strict(h, pid, t2) ==
    IF Len(h.p[pid].points) >= 2
    THEN Throw(h, "Get Parametric Point For n>2 is Not Implemented yet")
    ELSE IF h.p[pid].points = <<>> THEN Throw(h, "TypeError")
    ELSE Ok(h, Vector2(2 * h.p[pid].points[1][1], 2 * h.p[pid].points[1][2]))

\* Path.get_parametric_point at t = t2 / 2; the point returned is in halves.
\* On a path with no point, end is undefined and end.sub throws a TypeError.
get_parametric_point(h, pid, t2) ==
    IF Len(h.p[pid].points) > 2
    THEN Throw(h, "Get Parametric Point For n>2 is Not Implemented yet")
    ELSE IF h.p[pid].points = <<>> THEN Throw(h, "TypeError")
    ELSE LET end   == h.p[pid].points[Len(h.p[pid].points)]
             start == h.p[pid].points[1]
             dir   == Vector2_sub(end, start)
         IN  Ok(h, Vector2_add(Vector2(2 * start[1], 2 * start[2]), Vector2_scale(dir, t2)))

(***************************************************************************)
(* Diagram.                                                                *)
(***************************************************************************)
RECURSIVE copy(_, _), copy_children(_, _, _)
RECURSIVE fill(_, _, _), fill_children(_, _, _, _)
RECURSIVE stroke(_, _, _), stroke_children(_, _, _, _)
RECURSIVE translate(_, _, _), translate_children(_, _, _, _)
RECURSIVE rotate(_, _, _, _), rotate_children(_, _, _, _, _)
RECURSIVE copy_paths(_, _, _), translate_paths(_, _, _, _), rotate_paths(_, _, _, _, _)

\* the key a for-in loop over the keys `todo` visits next
NextKey(todo) == CHOOSE k \in todo : TRUE

\* for (let c in newd.children) { newd.children[c] = newd.children[c].copy(); }
copy_children(h, newd, todo) ==
    IF todo = {} THEN h
    ELSE LET c == NextKey(todo)
             k == copy(h, h.d[newd].children[c])
         IN  copy_children([k.h EXCEPT !.d[newd].children[c] = k.r], newd, todo \ {c})

\* for (let p in newd.paths) { newd.paths[p] = newd.paths[p].copy(); }
copy_paths(h, newd, todo) ==
    IF todo = {} THEN h
    ELSE LET p == NextKey(todo)
             k == Path_copy(h, h.d[newd].paths[p])
         IN  copy_paths([k.h EXCEPT !.d[newd].paths[p] = k.r], newd, todo \ {p})

\* a shallow copy: a new node over the children and the paths of this
copy_shallow(h, id) == Ok([h EXCEPT !.d = Append(@, h.d[id])], Len(h.d) + 1)

\* a copy that is no copy: let newd = this
copy_same(h, id) == Ok(h, id)

\* Diagram.copy. JSON.parse(JSON.stringify(this)) makes a new object with the
\* fields of this (an undefined color is dropped and reads back undefined) over
\* clones of its children and paths; the loops then replace each clone by its
\* own copy, so the clones themselves are never reachable and are not allocated
\* here: the copy of a child's clone is the copy of the child.
copy(h, id) ==
    LET newd == Len(h.d) + 1
        h1   == [h EXCEPT !.d = Append(@, h.d[id])]
        h2   == copy_children(h1, newd, DOMAIN h1.d[newd].children)
        h3   == copy_paths(h2, newd, DOMAIN h2.d[newd].paths)
    IN  Ok(h3, newd)

\* for (let c in newd.children) { newd.children[c].fill(color); }
fill_children(h, newd, todo, color) ==
    IF todo = {} THEN h
    ELSE LET c == NextKey(todo)
             k == fill(h, h.d[newd].children[c], color)
         IN  fill_children(k.h, newd, todo \ {c}, color)

\* Diagram.fill
fill(h, id, color) ==
    LET k    == copy(h, id)
        newd == k.r
    IN  CASE k.h.d[newd].type = DiagramType.Polygon ->
                Ok([k.h EXCEPT !.d[newd].color_fill = color], newd)
          [] k.h.d[newd].type = DiagramType.Curve -> Ok(k.h, newd)
          [] OTHER ->
                Ok(fill_children(k.h, newd, DOMAIN k.h.d[newd].children, color), newd)

\* for (let c in newd.children) { newd.children[c].stroke(color); }
stroke_children(h, newd, todo, color) ==
    IF todo = {} THEN h
    ELSE LET c == NextKey(todo)
             k == stroke(h, h.d[newd].children[c], color)
         IN  stroke_children(k.h, newd, todo \ {c}, color)

\* Diagram.stroke
stroke(h, id, color) ==
    LET k    == copy(h, id)
        newd == k.r
    IN  CASE k.h.d[newd].type = DiagramType.Polygon ->
                Ok([k.h EXCEPT !.d[newd].color_stroke = color], newd)
          [] k.h.d[newd].type = DiagramType.Curve ->
                Ok([k.h EXCEPT !.d[newd].color_stroke = color], newd)
          [] OTHER ->
                Ok(stroke_children(k.h, newd, DOMAIN k.h.d[newd].children, color), newd)

\* for (let c in newd.children) { newd.children[c] = newd.children[c].translate(v); }
translate_children(h, newd, todo, v) ==
    IF todo = {} THEN h
    ELSE LET c == NextKey(todo)
             k == translate(h, h.d[newd].children[c], v)
         IN  translate_children([k.h EXCEPT !.d[newd].children[c] = k.r], newd, todo \ {c}, v)

\* for (let p in newd.paths) { newd.paths[p] = newd.paths[p].translate(v); }
translate_paths(h, newd, todo, v) ==
    IF todo = {} THEN h
    ELSE LET p == NextKey(todo)
             k == Path_translate(h, h.d[newd].paths[p], v)
         IN  translate_paths([k.h EXCEPT !.d[newd].paths[p] = k.r], newd, todo \ {p}, v)

\* a translate that moves the children once more than the node
translate_twice(h, id, v) ==
    LET k    == copy(h, id)
        newd == k.r
        h1   == [k.h EXCEPT !.d[newd].origin = Vector2_add(@, v)]
        h2   == translate_children(h1, newd, DOMAIN h1.d[newd].children, v)
        h3   == translate_children(h2, newd, DOMAIN h2.d[newd].children, v)
        h4   == translate_paths(h3, newd, DOMAIN h3.d[newd].paths, v)
    IN  Ok(h4, newd)

\* Diagram.translate
translate(h, id, v) ==
    LET k    == copy(h, id)
        newd == k.r
        h1   == [k.h EXCEPT !.d[newd].origin = Vector2_add(@, v)]
        h2   == translate_children(h1, newd, DOMAIN h1.d[newd].children, v)
        h3   == translate_paths(h2, newd, DOMAIN h2.d[newd].paths, v)
    IN  Ok(h3, newd)

\* a position that takes v for the displacement
position_by(h, id, v) == translate(h, id, v)

\* Diagram.position
position(h, id, v) ==
    LET dv == Vector2_sub(v, h.d[id].origin)
    IN  translate(h, id, dv)

\* for (let c in newd.children) { newd.children[c] = newd.children[c].rotate(angle, pivot); }
rotate_children(h, newd, todo, angle, pivot) ==
    IF todo = {} THEN h
    ELSE LET c == NextKey(todo)
             k == rotate(h, h.d[newd].children[c], angle, pivot)
         IN  rotate_children([k.h EXCEPT !.d[newd].children[c] = k.r], newd, todo \ {c}, angle, pivot)

\* for (let p in newd.paths) { newd.paths[p] = newd.paths[p].rotate(angle, pivot); }
rotate_paths(h, newd, todo, angle, pivot) ==
    IF todo = {} THEN h
    ELSE LET p == NextKey(todo)
             k == Path_rotate(h, h.d[newd].paths[p], angle, pivot)
         IN  rotate_paths([k.h EXCEPT !.d[newd].paths[p] = k.r], newd, todo \ {p}, angle, pivot)

\* a rotate that lets every child default to its own pivot
rotate_own(h, id, angle, pivot) ==
    LET k    == copy(h, id)
        newd == k.r
        pv   == IF pivot = NoPivot THEN k.h.d[newd].origin ELSE pivot
        h1   == rotate_children(k.h, newd, DOMAIN k.h.d[newd].children, angle, NoPivot)
        h2   == rotate_paths(h1, newd, DOMAIN h1.d[newd].paths, angle, pv)
    IN  Ok(h2, newd)

\* a rotate that also turns the origin of every node about the pivot
rotate_origin(h, id, angle, pivot) ==
    LET k    == copy(h, id)
        newd == k.r
        pv   == IF pivot = NoPivot THEN k.h.d[newd].origin ELSE pivot
        h0   == [k.h EXCEPT !.d[newd].origin = Vector2_add(Vector2_rotate(Vector2_sub(@, pv), angle), pv)]
        h1   == rotate_children(h0, newd, DOMAIN h0.d[newd].children, angle, pv)
        h2   == rotate_paths(h1, newd, DOMAIN h1.d[newd].paths, angle, pv)
    IN  Ok(h2, newd)

\* Diagram.rotate
rotate(h, id, angle, pivot) ==
    LET k    == copy(h, id)
        newd == k.r
        pv   == IF pivot = NoPivot THEN k.h.d[newd].origin ELSE pivot
        h1   == rotate_children(k.h, newd, DOMAIN k.h.d[newd].children, angle, pv)
        h2   == rotate_paths(h1, newd, DOMAIN h1.d[newd].paths, angle, pv)
    IN  Ok(h2, newd)

RECURSIVE bounding_box(_, _), box_points(_, _, _), box_paths(_, _, _, _), box_children(_, _, _, _)

\* the value of v, computed once, given to F: the assignment of a local variable
Bind(v, F(_)) == CHOOSE r \in {F(x) : x \in {v}} : TRUE

\* for (let point of path.points) { minx = Math.min(minx, point.x); ... }
\* on box = <<minx, miny, maxx, maxy>>
box_points(box, points, i) ==
    IF i > Len(points) THEN box
    ELSE Bind(<<Math_min(box[1], points[i][1]), Math_min(box[2], points[i][2]),
                Math_max(box[3], points[i][1]), Math_max(box[4], points[i][2])>>,
              LAMBDA next : box_points(next, points, i + 1))

\* for (let p in this.paths) { ... }
box_paths(h, id, todo, box) ==
    IF todo = {} THEN box
    ELSE LET p == NextKey(todo)
         IN  Bind(box_points(box, h.p[h.d[id].paths[p]].points, 1),
                  LAMBDA next : box_paths(h, id, todo \ {p}, next))

\* for (let c in this.children) { let [min, max] = child.bounding_box(); ... }
box_children(h, id, todo, box) ==
    IF todo = {} THEN box
    ELSE LET c == NextKey(todo)
         IN  Bind(bounding_box(h, h.d[id].children[c]),
                  LAMBDA b : Bind(<<Math_min(box[1], b[1][1]), Math_min(box[2], b[1][2]),
                                    Math_max(box[3], b[2][1]), Math_max(box[4], b[2][2])>>,
                                  LAMBDA next : box_children(h, id, todo \ {c}, next)))

\* [new Vector2(minx, miny), new Vector2(maxx, maxy)]
Corners(box) == <<Vector2(box[1], box[2]), Vector2(box[3], box[4])>>

\* a bounding box whose extremes start at 0
bounding_box_zero(h, id) ==
    LET start == <<0, 0, 0, 0>>
    IN  CASE h.d[id].type = DiagramType.Polygon ->
                Bind(box_paths(h, id, DOMAIN h.d[id].paths, start), Corners)
          [] h.d[id].type = DiagramType.Curve ->
                Bind(box_paths(h, id, DOMAIN h.d[id].paths, start), Corners)
          [] h.d[id].type = DiagramType.Diagram ->
                Bind(box_children(h, id, DOMAIN h.d[id].children, start), Corners)

\* Diagram.bounding_box: [min, max]
bounding_box(h, id) ==
    LET start == <<Infinity, Infinity, -Infinity, -Infinity>>
    IN  CASE h.d[id].type = DiagramType.Polygon ->
                Bind(box_paths(h, id, DOMAIN h.d[id].paths, start), Corners)
          [] h.d[id].type = DiagramType.Curve ->
                Bind(box_paths(h, id, DOMAIN h.d[id].paths, start), Corners)
          [] h.d[id].type = DiagramType.Diagram ->
                Bind(box_children(h, id, DOMAIN h.d[id].children, start), Corners)

\* A number of get_anchor is kept in halves, the midpoint of two integers being
\* a half-integer: Whole(n) is n and HalfOf(n) is n / 2, both counted in halves.
Whole(n) == IF n = Infinity \/ n = -Infinity \/ n = NaN THEN n ELSE 2 * n

\* (a + b) / 2
HalfSum(a, b) ==
    CASE a = Infinity /\ b = -Infinity -> NaN
      [] a = -Infinity /\ b = Infinity -> NaN
      [] a = Infinity \/ b = Infinity -> Infinity
      [] a = -Infinity \/ b = -Infinity -> -Infinity
      [] OTHER -> a + b

\* a get_anchor with y growing upwards: Top at max.y and Bottom at min.y
get_anchor_yup(h, id, anchor) ==
    LET box  == bounding_box(h, id)
        minx == box[1][1]
        miny == box[1][2]
        maxx == box[2][1]
        maxy == box[2][2]
        midx == HalfSum(minx, maxx)
        midy == HalfSum(miny, maxy)
    IN  CASE anchor = Anchor.TopLeft      -> Ok(h, Vector2(Whole(minx), Whole(maxy)))
          [] anchor = Anchor.TopCenter    -> Ok(h, Vector2(midx, Whole(maxy)))
          [] anchor = Anchor.TopRight     -> Ok(h, Vector2(Whole(maxx), Whole(maxy)))
          [] anchor = Anchor.CenterLeft   -> Ok(h, Vector2(Whole(minx), midy))
          [] anchor = Anchor.CenterCenter -> Ok(h, Vector2(midx, midy))
          [] anchor = Anchor.CenterRight  -> Ok(h, Vector2(Whole(maxx), midy))
          [] anchor = Anchor.BottomLeft   -> Ok(h, Vector2(Whole(minx), Whole(miny)))
          [] anchor = Anchor.BottomCenter -> Ok(h, Vector2(midx, Whole(miny)))
          [] anchor = Anchor.BottomRight  -> Ok(h, Vector2(Whole(maxx), Whole(miny)))
          [] OTHER -> Throw(h, "Unknown anchor " \o anchor)

\* Diagram.get_anchor, its Vector2 in halves
get_anchor(h, id, anchor) ==
    LET box  == bounding_box(h, id)
        minx == box[1][1]
        miny == box[1][2]
        maxx == box[2][1]
        maxy == box[2][2]
        midx == HalfSum(minx, maxx)
        midy == HalfSum(miny, maxy)
    IN  CASE anchor = Anchor.TopLeft      -> Ok(h, Vector2(Whole(minx), Whole(miny)))
          [] anchor = Anchor.TopCenter    -> Ok(h, Vector2(midx, Whole(miny)))
          [] anchor = Anchor.TopRight     -> Ok(h, Vector2(Whole(maxx), Whole(miny)))
          [] anchor = Anchor.CenterLeft   -> Ok(h, Vector2(Whole(minx), midy))
          [] anchor = Anchor.CenterCenter -> Ok(h, Vector2(midx, midy))
          [] anchor = Anchor.CenterRight  -> Ok(h, Vector2(Whole(maxx), midy))
          [] anchor = Anchor.BottomLeft   -> Ok(h, Vector2(Whole(minx), Whole(maxy)))
          [] anchor = Anchor.BottomCenter -> Ok(h, Vector2(midx, Whole(maxy)))
          [] anchor = Anchor.BottomRight  -> Ok(h, Vector2(Whole(maxx), Whole(maxy)))
          [] OTHER -> Throw(h, "Unknown anchor " \o anchor)

(***************************************************************************)
(* polygon.                                                                *)
(***************************************************************************)
RECURSIVE polygon_paths(_, _, _, _)
\* for (let i = 0; i < points.length - 1; i++) { paths.push(new Path([points[i], points[i+1]])); }
\* returns [h, r: the identities of the paths pushed]
polygon_paths(h, points, i, paths) ==
    IF i >= Len(points) THEN Ok(h, paths)
    ELSE LET k == new_Path(h, <<points[i], points[i + 1]>>)
         IN  polygon_paths(k.h, points, i + 1, Append(paths, k.r))

\* 'path' + i, replaced by names[i] for i < Math.min(path_names.length, names.length)
polygon_names(n, names) ==
    [i \in 1..n |-> IF i <= Math_min(n, Len(names)) THEN names[i] ELSE "path" \o ToString(i - 1)]

\* polygon(points, names)
polygon(h, points, names) ==
    IF ~(Len(points) >= 3) THEN Throw(h, "Polygon must have at least 3 points")
    ELSE LET ps == polygon_paths(h, points, 1, <<>>)
             d  == new_Diagram(ps.h, DiagramType.Polygon)
         IN  add_paths(d.h, d.r, ps.r, polygon_names(Len(ps.r), names))

(***************************************************************************)
(* plotv (shapes_graph.ts): the split of the data into the segments that   *)
(* are drawn. A coordinate may be NaN, which no comparison holds of.       *)
(***************************************************************************)
\* default_axes_options: the ranges
default_axes_options == [xrange |-> <<-2, 2>>, yrange |-> <<-2, 2>>]

\* {...a, ...b}
Spread(a, b) == [k \in DOMAIN a \cup DOMAIN b |-> IF k \in DOMAIN b THEN b[k] ELSE a[k]]

\* a >= b and a <= b of JavaScript numbers
Ge(a, b) == a # NaN /\ b # NaN /\ a >= b

Le(a, b) == a # NaN /\ b # NaN /\ a <= b

RECURSIVE plotv_loop(_, _, _, _, _), plotv_loop_keep(_, _, _, _, _)

\* a loop that keeps a segment of one point
plotv_loop_keep(data, opt, i, segments, current_segment) ==
    IF i > Len(data) THEN <<segments, current_segment>>
    ELSE LET p         == data[i]
             is_inside == /\ Ge(p[1], opt.xrange[1]) /\ Le(p[1], opt.xrange[2])
                          /\ Ge(p[2], opt.yrange[1]) /\ Le(p[2], opt.yrange[2])
         IN  IF ~is_inside
             THEN plotv_loop_keep(data, opt, i + 1,
                                  IF Len(current_segment) > 0 THEN Append(segments, current_segment)
                                  ELSE segments,
                                  <<>>)
             ELSE plotv_loop_keep(data, opt, i + 1, segments, Append(current_segment, p))

\* for (let i=0; i < data.length; i++) { ... } of plotv, from the i-th point on:
\* <<segments, current_segment>> after the loop
plotv_loop(data, opt, i, segments, current_segment) ==
    IF i > Len(data) THEN <<segments, current_segment>>
    ELSE LET p         == data[i]
             is_inside == /\ Ge(p[1], opt.xrange[1]) /\ Le(p[1], opt.xrange[2])
                          /\ Ge(p[2], opt.yrange[1]) /\ Le(p[2], opt.yrange[2])
         IN  IF ~is_inside
             THEN plotv_loop(data, opt, i + 1,
                             IF Len(current_segment) > 1 THEN Append(segments, current_segment)
                             ELSE segments,
                             <<>>)
             ELSE plotv_loop(data, opt, i + 1, segments, Append(current_segment, p))

\* plotv(data, axes_options) up to the segments it makes the curves of
plotv_segments(data, axes_options) ==
    LET opt  == Spread(default_axes_options, axes_options)
        loop == plotv_loop(data, opt, 1, <<>>, <<>>)
    IN  IF Len(loop[2]) > 1 THEN Append(loop[1], loop[2]) ELSE loop[1]

(***************************************************************************)
(* Tables (shapes_table.ts). The Diagram of this module is the one of a    *)
(* later diagram.js, not among the sources: a node has tags, an origin and *)
(* its children in order. A node made here is a value; ref is the heap     *)
(* object a node stands for (a diagram the caller gave, placed), or 0.     *)
(* The sizes are even numbers, so that the midpoints are whole numbers.    *)
(***************************************************************************)
\* an undefined entry of the array of diagrams
NoDiagram == 0

\* empty(): a Group with nothing in it, its origin the default
empty == [tags |-> {}, origin |-> Vector2(0, 0), children |-> <<>>, corners |-> <<>>, ref |-> 0]

\* diagram_combine(...diagrams): the Group of the diagrams, in order
diagram_combine(diagrams) == [empty EXCEPT !.children = diagrams]

\* d.append_tag(tag)
append_tag(d, tag) == [d EXCEPT !.tags = @ \cup {tag}]

\* rectangle_corner(a, b).move_origin(o)
rectangle_corner(a, b, o) == [empty EXCEPT !.corners = <<a, b>>, !.origin = o]

\* the node that stands for the heap Diagram id
Ref(h, id) == [empty EXCEPT !.origin = h.d[id].origin, !.ref = id]

RECURSIVE Extend(_, _), Extend_first(_, _), max_length(_, _, _)
RECURSIVE table_cols(_, _, _, _, _, _, _), table_rows(_, _, _, _, _, _, _)
RECURSIVE fixed_size_place(_, _, _, _, _, _, _, _)

\* a loop that repeats the first size
Extend_first(sizes, count) ==
    IF Len(sizes) < count THEN Extend_first(Append(sizes, sizes[1]), count) ELSE sizes

\* while (sizes.length < count) { sizes.push(sizes[sizes.length-1]); }
Extend(sizes, count) ==
    IF Len(sizes) < count THEN Extend(Append(sizes, sizes[Len(sizes)]), count) ELSE sizes

\* Math.max(...diagram_rows.map(row => row.length)), from row i on: -Infinity of no row
max_length(diagram_rows, i, m) ==
    IF i > Len(diagram_rows) THEN m
    ELSE max_length(diagram_rows, i + 1, Math_max(m, Len(diagram_rows[i])))

\* diagram_rows[r][c], r and c from 0: undefined past the end of the row
Cell(diagram_rows, r, c) ==
    IF c + 1 <= Len(diagram_rows[r + 1]) THEN diagram_rows[r + 1][c + 1] ELSE NoDiagram

\* for (let c = 0; c < col_count; c++) { ... } of empty_fixed_size: the cells of a row
table_cols(col_count, colsizes, y_top, y_bot, c, x_left, cols) ==
    IF ~(c < col_count) THEN cols
    ELSE LET x_right == x_left + colsizes[c + 1]
             x_mid   == (x_left + x_right) \div 2
             y_mid   == (y_top + y_bot) \div 2
             rect    == rectangle_corner(Vector2(x_left, y_bot), Vector2(x_right, y_top),
                                         Vector2(x_mid, y_mid))
         IN  table_cols(col_count, colsizes, y_top, y_bot, c + 1, x_right, Append(cols, rect))

\* for (let r = 0; r < row_count; r++) { ... } of empty_fixed_size: the rows
table_rows(row_count, col_count, rowsizes, colsizes, r, y_top, rows) ==
    IF ~(r < row_count) THEN rows
    ELSE LET y_bot == y_top + rowsizes[r + 1]
             cols  == table_cols(col_count, colsizes, y_top, y_bot, 0, 0, <<>>)
         IN  table_rows(row_count, col_count, rowsizes, colsizes, r + 1, y_bot,
                        Append(rows, diagram_combine(cols)))

\* empty_fixed_size(row_count, col_count, rowsizes, colsizes)
empty_fixed_size(row_count, col_count, rowsizes, colsizes) ==
    LET rs == Extend(rowsizes, row_count)
        cs == Extend(colsizes, col_count)
    IN  append_tag(diagram_combine(table_rows(row_count, col_count, rs, cs, 0, 0, <<>>)), "table")

\* get_points(table_diagram)
get_points(table_diagram) ==
    LET tagged         == {i \in DOMAIN table_diagram.children : "table" \in table_diagram.children[i].tags}
        table_diagram_ == IF "contain_table" \in table_diagram.tags /\ tagged # {}
                          THEN table_diagram.children[CHOOSE i \in tagged : \A j \in tagged : i <= j]
                          ELSE table_diagram
    IN  IF "table" \notin table_diagram_.tags THEN <<>>
        ELSE [r \in DOMAIN table_diagram_.children |->
                 [c \in DOMAIN table_diagram_.children[r].children |->
                     table_diagram_.children[r].children[c].origin]]

\* the two loops of fixed_size from row r, column c on: [h, r: diagram_grid]
fixed_size_place(h, diagram_rows, points, row_count, col_count, r, c, diagram_grid) ==
    IF ~(r < row_count) THEN Ok(h, diagram_grid)
    ELSE IF ~(c < col_count)
    THEN fixed_size_place(h, diagram_rows, points, row_count, col_count, r + 1, 0, diagram_grid)
    ELSE LET d == Cell(diagram_rows, r, c)
         IN  IF d = NoDiagram
             THEN fixed_size_place(h, diagram_rows, points, row_count, col_count, r, c + 1, diagram_grid)
             ELSE Bind(position(h, d, points[r + 1][c + 1]),
                       LAMBDA k : fixed_size_place(k.h, diagram_rows, points, row_count, col_count,
                                                   r, c + 1, Append(diagram_grid, Ref(k.h, k.r))))

\* fixed_size(diagrams, rowsizes, colsizes), the orientation the default 'rows'
fixed_size(h, diagrams, rowsizes, colsizes) ==
    LET diagram_rows == diagrams
        row_count    == Len(diagram_rows)
        col_count    == max_length(diagram_rows, 1, -Infinity)
        table        == empty_fixed_size(row_count, col_count, rowsizes, colsizes)
        points       == get_points(table)
        k            == fixed_size_place(h, diagram_rows, points, row_count, col_count, 0, 0, <<>>)
        diagram_grid_combined == diagram_combine(k.r)
    IN  Ok(k.h, append_tag(diagram_combine(<<table, diagram_grid_combined>>), "contain_table"))

(***************************************************************************)
(* What a caller can observe, and what the collector keeps.                *)
(***************************************************************************)
RECURSIVE Val(_, _), Reach(_, _)

\* the tree under a node as a value: every field of every descendant, the
\* children and the paths by name, the paths by their points
Val(h, id) ==
    [type         |-> h.d[id].type,
     origin       |-> h.d[id].origin,
     color_stroke |-> h.d[id].color_stroke,
     color_fill   |-> h.d[id].color_fill,
     children     |-> [c \in DOMAIN h.d[id].children |-> Val(h, h.d[id].children[c])],
     paths        |-> [p \in DOMAIN h.d[id].paths |-> h.p[h.d[id].paths[p]].points]]

\* the Diagram objects reachable from a node, itself included
Reach(h, id) ==
    {id} \cup UNION {Reach(h, h.d[id].children[c]) : c \in DOMAIN h.d[id].children}

\* the Path objects reachable from a node
ReachPaths(h, id) ==
    UNION {{h.d[n].paths[p] : p \in DOMAIN h.d[n].paths} : n \in Reach(h, id)}

\* the k-th smallest member of a set of numbers
Nth(S, k) == CHOOSE i \in S : Cardinality({j \in S : j <= i}) = k

\* the position of i in S
Rank(S, i) == Cardinality({j \in S : j <= i})

\* Garbage collection: the heap h restricted to the objects reachable from the
\* roots, the objects kept renumbered in their order of allocation. An object no
\* reference leads to has no effect on any later call.
Collect(h, roots) ==
    LET keepD == UNION {Reach(h, i) : i \in roots}
        keepP == UNION {ReachPaths(h, i) : i \in roots}
    IN  [d |-> [k \in 1..Cardinality(keepD) |->
                   LET n == h.d[Nth(keepD, k)]
                   IN  [n EXCEPT !.children = [c \in DOMAIN @ |-> Rank(keepD, @[c])],
                                 !.paths    = [q \in DOMAIN @ |-> Rank(keepP, @[q])]]],
         p |-> [k \in 1..Cardinality(keepP) |-> h.p[Nth(keepP, k)]]]

\* the identity after Collect(h, roots) of a kept Diagram object
Renamed(h, roots, id) == Rank(UNION {Reach(h, i) : i \in roots}, id)

(***************************************************************************)
(* The diagrams the calls are made on, each built with the constructors    *)
(* above and then collected from its root.                                 *)
(***************************************************************************)
\* a Curve leaf with one path through the points
curve_leaf(h, points) ==
    LET d == new_Diagram(h, DiagramType.Curve)
        p == new_Path(d.h, points)
    IN  add_paths(p.h, d.r, <<p.r>>, <<"c">>)

\* a Group over the children
group(h, childs, names) ==
    LET g == new_Diagram(h, DiagramType.Diagram)
    IN  add_childs(g.h, g.r, childs, names)

Triangle == <<Vector2(0, 0), Vector2(2, 0), Vector2(2, 1)>>

Zigzag == <<Vector2(0, 1), Vector2(3, 3), Vector2(1, -1)>>

Segment == <<Vector2(0, 0), Vector2(4, 2)>>

\* a Group of a Polygon and a Curve that was moved
ScenePair ==
    LET a == polygon(EmptyHeap, Triangle, <<>>)
        b == curve_leaf(a.h, Zigzag)
        m == position(b.h, b.r, Vector2(2, 1))
        g == group(m.h, <<a.r, m.r>>, <<"a", "b">>)
    IN  Collect(g.h, {g.r})

\* a Group in a Group, both moved, over a Polygon
SceneNested ==
    LET a == polygon(EmptyHeap, Triangle, <<"base">>)
        m == translate(a.h, a.r, Vector2(0, 2))
        g == group(m.h, <<m.r>>, <<"a">>)
        n == translate(g.h, g.r, Vector2(1, 0))
        t == group(n.h, <<n.r>>, <<"a">>)
    IN  Collect(t.h, {t.r})

\* a Group of an empty Group and an empty Polygon beside a Curve: children
\* with no geometry
SceneEmpty ==
    LET e == new_Diagram(EmptyHeap, DiagramType.Diagram)
        f == new_Diagram(e.h, DiagramType.Polygon)
        b == curve_leaf(f.h, Zigzag)
        g == group(b.h, <<e.r, f.r, b.r>>, <<"a", "b", "c">>)
    IN  Collect(g.h, {g.r})

\* a Group holding the same Polygon object under two names
SceneShared ==
    LET a == polygon(EmptyHeap, Triangle, <<>>)
        g == group(a.h, <<a.r, a.r>>, <<"a", "b">>)
    IN  Collect(g.h, {g.r})

Scenes == {ScenePair, SceneNested, SceneShared}

\* the root of a scene: the object allocated last
Root(h) == Len(h.d)

(***************************************************************************)
(* The arguments of the calls.                                             *)
(***************************************************************************)
FillColors == {"red"}

StrokeColors == {"blue"}

Vectors == {Vector2(1, 0), Vector2(-2, 3)}

Targets == {Vector2(3, -1)}

\* <<angle, pivot>>: a quarter turn about the node's own origin, and the opposite
\* quarter turn about a pivot that is no node's origin
Rotations == {<<1, NoPivot>>, <<-1, Vector2(1, 1)>>}

(***************************************************************************)
(* The state machine. heap is the heap; last is the last call made: its    *)
(* name, the object it was made on, its arguments, and what it returned    *)
(* (r: a Diagram, box: a bounding box, pt: a point) or threw (err); nops   *)
(* counts the calls made.                                                  *)
(***************************************************************************)
NoCall ==
    [op |-> "none", d |-> 0, color |-> "", v |-> Vector2(0, 0), angle |-> 0, pivot |-> NoPivot,
     anchor |-> "", r |-> 0, box |-> <<Vector2(0, 0), Vector2(0, 0)>>, pt |-> Vector2(0, 0),
     err |-> "", points |-> <<>>, names |-> <<>>, path |-> 0, t |-> 0,
     data |-> <<>>, axes_options |-> EmptyMap, segments |-> <<>>,
     diagrams |-> <<>>, rowsizes |-> <<>>, colsizes |-> <<>>, table |-> empty]

Ids == 1..Len(heap.d)

Init ==
    /\ heap \in Scenes
    /\ last = NoCall
    /\ nops = 0

\* a call that returned k (bound by \E to the value of the call, computed once)
\* with the Diagram k.r: the caller keeps every object it held and the one
\* returned
Returned(k, call) ==
    LET roots == Ids \cup {k.r}
    IN  /\ heap' = Collect(k.h, roots)
        /\ last' = [call EXCEPT !.r = Renamed(k.h, roots, k.r)]
        /\ nops' = nops + 1

Copy ==
    /\ nops < MaxOps
    /\ \E d \in Ids :
           \E k \in {copy(heap, d)} :
               Returned(k, [NoCall EXCEPT !.op = "copy", !.d = d])

Fill ==
    /\ nops < MaxOps
    /\ \E d \in Ids, color \in FillColors :
           \E k \in {fill(heap, d, color)} :
               Returned(k, [NoCall EXCEPT !.op = "fill", !.d = d, !.color = color])

Stroke ==
    /\ nops < MaxOps
    /\ \E d \in Ids, color \in StrokeColors :
           \E k \in {stroke(heap, d, color)} :
               Returned(k, [NoCall EXCEPT !.op = "stroke", !.d = d, !.color = color])

Translate ==
    /\ nops < MaxOps
    /\ \E d \in Ids, v \in Vectors :
           \E k \in {translate(heap, d, v)} :
               Returned(k, [NoCall EXCEPT !.op = "translate", !.d = d, !.v = v])

Position ==
    /\ nops < MaxOps
    /\ \E d \in Ids, v \in Targets :
           \E k \in {position(heap, d, v)} :
               Returned(k, [NoCall EXCEPT !.op = "position", !.d = d, !.v = v])

Rotate ==
    /\ nops < MaxOps
    /\ \E d \in Ids, a \in Rotations :
           \E k \in {rotate(heap, d, a[1], a[2])} :
               Returned(k, [NoCall EXCEPT !.op = "rotate", !.d = d, !.angle = a[1], !.pivot = a[2]])

Next ==
    \/ Copy
    \/ Fill
    \/ Stroke
    \/ Translate
    \/ Position
    \/ Rotate

Spec == Init /\ [][Next]_vars

(***************************************************************************)
(* Immutability and the propagation of styles.                             *)
(***************************************************************************)
TreeOps == {"fill", "stroke", "translate", "position", "rotate"}

\* C1: a call of fill, stroke, translate, position or rotate on a Diagram d,
\* made after any sequence of such calls, changes no field of any Diagram or
\* Path object that existed before it, so d is as it was: the origin, the
\* colors, the children and the path points of d and of all its descendants,
\* and its bounding box.
Immutability ==
    [][last'.op \in TreeOps =>
          /\ SubSeq(heap'.d, 1, Len(heap.d)) = heap.d
          /\ SubSeq(heap'.p, 1, Len(heap.p)) = heap.p
          /\ Val(heap', last'.d) = Val(heap, last'.d)
          /\ bounding_box(heap', last'.d) = bounding_box(heap, last'.d)]_vars

\* a second call in a row has moved a Group of three nodes and returned
\* another tree
ImmutabilityWitness ==
    /\ last.op = "translate"
    /\ nops = 2
    /\ heap.d[last.d].type = DiagramType.Diagram
    /\ Cardinality(Reach(heap, last.d)) >= 3
    /\ last.r # last.d
    /\ Val(heap, last.r) # Val(heap, last.d)

RECURSIVE Filled(_, _), Stroked(_, _)

\* the tree t with the fill color set on every Polygon at any depth
Filled(t, color) ==
    [t EXCEPT !.color_fill = IF t.type = DiagramType.Polygon THEN color ELSE @,
              !.children   = [c \in DOMAIN @ |-> Filled(@[c], color)]]

\* C2: fill(color) returns the tree with the fill color set on every Polygon
\* descendant, the fill of every Curve left unset and no stroke changed.
FillPropagation ==
    last.op = "fill" => Val(heap, last.r) = Filled(Val(heap, last.d), last.color)

\* the tree t with the stroke color set on every Polygon and Curve at any depth
Stroked(t, color) ==
    [t EXCEPT !.color_stroke = IF t.type \in {DiagramType.Polygon, DiagramType.Curve} THEN color ELSE @,
              !.children     = [c \in DOMAIN @ |-> Stroked(@[c], color)]]

\* C3: stroke(color) returns the tree with the stroke color set on every Polygon
\* and every Curve of the subtree, and no fill changed.
StrokePropagation ==
    last.op = "stroke" => Val(heap, last.r) = Stroked(Val(heap, last.d), last.color)

(***************************************************************************)
(* Copies.                                                                 *)
(***************************************************************************)
\* the names a caller attaches under: one in use in the diagrams, one not
NewNames == {"a", "z"}

\* the heaps one add_childs or add_paths call on node n can leave (a child that
\* holds n would close a cycle, on which JSON.stringify throws)
Mutations(h, n) ==
    {add_childs(h, n, <<c>>, <<nm>>).h :
        c \in {x \in 1..Len(h.d) : n \notin Reach(h, x)}, nm \in NewNames}
    \cup {add_paths(h, n, <<q>>, <<nm>>).h : q \in 1..Len(h.p), nm \in NewNames}

\* C5: the copy c of d equals d in every field at every level, shares no
\* Diagram and no Path object with d, and no add_childs or add_paths on a node
\* of either tree changes the other tree.
CopyIsolation ==
    last.op = "copy" =>
        LET d == last.d
            c == last.r
        IN  /\ Val(heap, c) = Val(heap, d)
            /\ Reach(heap, c) \cap Reach(heap, d) = {}
            /\ ReachPaths(heap, c) \cap ReachPaths(heap, d) = {}
            /\ \A n \in Reach(heap, c) : \A m \in Mutations(heap, n) : Val(m, d) = Val(heap, d)
            /\ \A n \in Reach(heap, d) : \A m \in Mutations(heap, n) : Val(m, c) = Val(heap, c)

\* a Group of three nodes was copied, and there is a call on a descendant of
\* the copy that changes the copy
CopyIsolationWitness ==
    /\ last.op = "copy"
    /\ Cardinality(Reach(heap, last.d)) >= 3
    /\ ReachPaths(heap, last.d) # {}
    /\ \E n \in Reach(heap, last.r) \ {last.r} : \E m \in Mutations(heap, n) :
            Val(m, last.r) # Val(heap, last.r)

(***************************************************************************)
(* Moves.                                                                  *)
(***************************************************************************)
RECURSIVE Shifted(_, _), Turned(_, _, _), PointsOf(_), Flat(_), FlatChildren(_, _), FlatPaths(_, _)

\* C6: position(v) returns a tree whose origin is v, and position(v) on that
\* tree returns an equal tree: the same origin, the same bounding box and the
\* same points in every descendant.
PositionIdempotent ==
    last.op = "position" =>
        LET again == position(heap, last.r, last.v)
        IN  /\ heap.d[last.r].origin = last.v
            /\ Val(again.h, again.r) = Val(heap, last.r)
            /\ bounding_box(again.h, again.r) = bounding_box(heap, last.r)

\* a Group with a child, whose origin was neither v nor (0, 0), was positioned
PositionWitness ==
    /\ last.op = "position"
    /\ heap.d[last.d].origin \notin {last.v, Vector2(0, 0)}
    /\ heap.d[last.d].children # EmptyMap
    /\ ReachPaths(heap, last.d) # {}

\* the tree t with every origin and every path point moved by v, once
Shifted(t, v) ==
    [t EXCEPT !.origin   = Vector2_add(@, v),
              !.children = [c \in DOMAIN @ |-> Shifted(@[c], v)],
              !.paths    = [p \in DOMAIN @ |-> [i \in DOMAIN @[p] |-> Vector2_add(@[p][i], v)]]]

\* C7: translate(a) moves every origin and every path point of the subtree by
\* a exactly once, and translate(a) then translate(b) gives the origin and the
\* bounding box (and the tree) that translate(a + b) gives.
TranslateAdditive ==
    last.op = "translate" =>
        /\ Val(heap, last.r) = Shifted(Val(heap, last.d), last.v)
        /\ \A b \in Vectors :
              LET two == translate(heap, last.r, b)
                  one == translate(heap, last.d, Vector2_add(last.v, b))
              IN  /\ two.h.d[two.r].origin = one.h.d[one.r].origin
                  /\ bounding_box(two.h, two.r) = bounding_box(one.h, one.r)
                  /\ Val(two.h, two.r) = Val(one.h, one.r)

\* a Group in a Group over a leaf with paths was translated
TranslateWitness ==
    /\ last.op = "translate"
    /\ \E c \in DOMAIN heap.d[last.d].children :
          LET g == heap.d[last.d].children[c]
          IN  \E e \in DOMAIN heap.d[g].children :
                  heap.d[heap.d[g].children[e]].paths # EmptyMap
    /\ bounding_box(heap, last.r) # bounding_box(heap, last.d)

\* the paths of a tree, by name at every level
PointsOf(t) == [paths |-> t.paths, children |-> [c \in DOMAIN t.children |-> PointsOf(t.children[c])]]

\* the tree t with every path point p at any depth taken to P + R(p - P)
Turned(t, angle, P) ==
    [t EXCEPT !.children = [c \in DOMAIN @ |-> Turned(@[c], angle, P)],
              !.paths    = [p \in DOMAIN @ |->
                               [i \in DOMAIN @[p] |->
                                   Vector2_add(Vector2_rotate(Vector2_sub(@[p][i], P), angle), P)]]]

\* the points of a tree in one sequence, the keys taken in a fixed order
FlatPaths(paths, todo) ==
    IF todo = {} THEN <<>>
    ELSE LET p == NextKey(todo) IN paths[p] \o FlatPaths(paths, todo \ {p})

FlatChildren(children, todo) ==
    IF todo = {} THEN <<>>
    ELSE LET c == NextKey(todo) IN Flat(children[c]) \o FlatChildren(children, todo \ {c})

Flat(t) == FlatPaths(t.paths, DOMAIN t.paths) \o FlatChildren(t.children, DOMAIN t.children)

\* the square of the distance between two points
Dist2(a, b) == (a[1] - b[1]) * (a[1] - b[1]) + (a[2] - b[2]) * (a[2] - b[2])

\* the pivot of a rotate call: the origin of the node it was called on when omitted
PivotOf(call) == IF call.pivot = NoPivot THEN heap.d[call.d].origin ELSE call.pivot

\* C8: rotate(a, P) takes every path point p of every leaf at any depth to
\* P + R_a(p - P), with the one P of the call (the origin of the node it was
\* called on when the pivot is omitted); the distance between any two points of
\* the subtree is kept, and the rotation by -a about P gives the points back.
RotateRigid ==
    last.op = "rotate" =>
        LET P      == PivotOf(last)
            before == Flat(Val(heap, last.d))
            after  == Flat(Val(heap, last.r))
            back   == rotate(heap, last.r, -last.angle, P)
        IN  /\ PointsOf(Val(heap, last.r)) = PointsOf(Turned(Val(heap, last.d), last.angle, P))
            /\ Len(after) = Len(before)
            /\ \A i, j \in 1..Len(before) : Dist2(after[i], after[j]) = Dist2(before[i], before[j])
            /\ PointsOf(Val(back.h, back.r)) = PointsOf(Val(heap, last.d))

\* a Group was rotated that has a descendant with paths whose origin is not
\* the pivot, and the points moved
RotateWitness ==
    /\ last.op = "rotate"
    /\ \E n \in Reach(heap, last.d) \ {last.d} :
          /\ heap.d[n].origin # PivotOf(last)
          /\ heap.d[n].paths # EmptyMap
    /\ PointsOf(Val(heap, last.r)) # PointsOf(Val(heap, last.d))

RECURSIVE Frame(_)
\* a tree without its path points: the kind, the origin, the colors, the names
\* of the paths and the number of points of each, the children by name
Frame(t) ==
    [type         |-> t.type,
     origin       |-> t.origin,
     color_stroke |-> t.color_stroke,
     color_fill   |-> t.color_fill,
     paths        |-> [p \in DOMAIN t.paths |-> Len(t.paths[p])],
     children     |-> [c \in DOMAIN t.children |-> Frame(t.children[c])]]

\* C15: rotate(a, P), with P given or omitted, returns a tree with the origin
\* of the receiver, in which every descendant has the origin, the kind, the
\* colors, the child names and the path names of the descendant it was made
\* of: only path points change.
RotateOriginsFixed ==
    last.op = "rotate" =>
        /\ heap.d[last.r].origin = heap.d[last.d].origin
        /\ Frame(Val(heap, last.r)) = Frame(Val(heap, last.d))

\* a Group was rotated about a given pivot that is not its origin, it has a
\* descendant whose origin a turn about the pivot moves, and points moved
RotateOriginsWitness ==
    /\ last.op = "rotate"
    /\ last.pivot # NoPivot
    /\ heap.d[last.d].origin # last.pivot
    /\ \E n \in Reach(heap, last.d) \ {last.d} :
          Vector2_add(Vector2_rotate(Vector2_sub(heap.d[n].origin, last.pivot), last.angle), last.pivot)
              # heap.d[n].origin
    /\ PointsOf(Val(heap, last.r)) # PointsOf(Val(heap, last.d))

(***************************************************************************)
(* Queries: bounding_box and get_anchor on the diagrams above and on the   *)
(* ones translate and rotate make of them.                                 *)
(***************************************************************************)
\* the queries of one run: a query leaves the heap as it was, so what a query
\* returns does not depend on the queries before it
MaxQueries == 1

AnchorArgs == Anchors \cup {"middle"}

\* Path objects of no point, one, two and three points, two of them the
\* segments of a Polygon
ScenePaths ==
    LET a == polygon(EmptyHeap, Triangle, <<>>)
        s == new_Path(a.h, Segment)
        e == new_Path(s.h, <<>>)
        o == new_Path(e.h, <<Vector2(1, 1)>>)
        z == new_Path(o.h, Zigzag)
    IN  z.h

\* t = 0, 1/2, 1, and two values outside [0, 1], in halves
Parameters == {0, 1, 2, 3, -1}

\* a scene and the tree one call on its root returns, both held
After(s, k) == Collect(k.h, {Root(s), k.r})

QueryScenes ==
    {ScenePair, SceneNested, SceneEmpty, SceneShared, ScenePaths}
    \cup {After(x[1], x[2]) :
              x \in {<<s, translate(s, Root(s), v)>> : s \in {ScenePair, SceneEmpty}, v \in Vectors}}
    \cup {After(x[1], x[2]) :
              x \in {<<s, rotate(s, Root(s), a[1], a[2])>> : s \in {ScenePair, SceneNested}, a \in Rotations}}

QueryInit ==
    /\ heap \in QueryScenes
    /\ last = NoCall
    /\ nops = 0

BoundingBox ==
    /\ nops < MaxQueries
    /\ \E d \in Ids :
          /\ last' = [NoCall EXCEPT !.op = "bounding_box", !.d = d, !.box = bounding_box(heap, d)]
          /\ nops' = nops + 1
          /\ UNCHANGED heap

GetAnchor ==
    /\ nops < MaxQueries
    /\ \E d \in Ids, anchor \in AnchorArgs :
          LET k == get_anchor(heap, d, anchor)
          IN  /\ last' = [NoCall EXCEPT !.op = "get_anchor", !.d = d, !.anchor = anchor,
                                        !.pt = IF k.err = "" THEN k.r ELSE @, !.err = k.err]
              /\ nops' = nops + 1
              /\ UNCHANGED heap

GetParametricPoint ==
    /\ nops < MaxQueries
    /\ \E pid \in 1..Len(heap.p), t \in Parameters :
           \E k \in {get_parametric_point(heap, pid, t)} :
               /\ heap' = k.h
               /\ last' = [NoCall EXCEPT !.op = "get_parametric_point", !.path = pid, !.t = t,
                                         !.pt = IF k.err = "" THEN k.r ELSE @, !.err = k.err]
               /\ nops' = nops + 1

QueryNext ==
    \/ BoundingBox
    \/ GetAnchor
    \/ GetParametricPoint

SpecQuery == QueryInit /\ [][QueryNext]_vars

\* the least and the greatest member of a non-empty set of numbers
SetMin(S) == CHOOSE m \in S : \A x \in S : m <= x

SetMax(S) == CHOOSE m \in S : \A x \in S : m >= x

\* the box of no geometry, the identity of the union
Degenerate == <<Vector2(Infinity, Infinity), Vector2(-Infinity, -Infinity)>>

\* the union of a set of boxes, none degenerate
UnionBox(B) ==
    IF B = {} THEN Degenerate
    ELSE <<Vector2(SetMin({b[1][1] : b \in B}), SetMin({b[1][2] : b \in B})),
           Vector2(SetMax({b[2][1] : b \in B}), SetMax({b[2][2] : b \in B}))>>

\* all the points of all the paths of a node
PointSet(h, id) ==
    UNION {{h.p[h.d[id].paths[p]].points[i] : i \in DOMAIN h.p[h.d[id].paths[p]].points} :
              p \in DOMAIN h.d[id].paths}

\* C9: the bounding box of a leaf is the componentwise min and max over all
\* points of all its paths; the bounding box of a Group is the union of the
\* boxes of its children, a child with no geometry (whose box is min = +inf,
\* max = -inf) adding nothing to it; a node with no geometry has that box.
BoundingBoxUnion ==
    last.op = "bounding_box" =>
        IF heap.d[last.d].type = DiagramType.Diagram
        THEN LET B == {bounding_box(heap, heap.d[last.d].children[c]) : c \in DOMAIN heap.d[last.d].children}
             IN  last.box = UnionBox(B \ {Degenerate})
        ELSE last.box = UnionBox({<<q, q>> : q \in PointSet(heap, last.d)})

\* the box was taken of a Group with a child that has geometry, moved off the
\* axes, and two that have none
BoundingBoxWitness ==
    /\ last.op = "bounding_box"
    /\ heap.d[last.d].type = DiagramType.Diagram
    /\ \E c, e \in DOMAIN heap.d[last.d].children :
          /\ bounding_box(heap, heap.d[last.d].children[c]) = Degenerate
          /\ bounding_box(heap, heap.d[last.d].children[e]) # Degenerate
    /\ last.box[1][1] > 0

LeftAnchors == {Anchor.TopLeft, Anchor.CenterLeft, Anchor.BottomLeft}

RightAnchors == {Anchor.TopRight, Anchor.CenterRight, Anchor.BottomRight}

TopAnchors == {Anchor.TopLeft, Anchor.TopCenter, Anchor.TopRight}

BottomAnchors == {Anchor.BottomLeft, Anchor.BottomCenter, Anchor.BottomRight}

\* C10: on a Diagram with geometry, whose bounding box is (min, max),
\* get_anchor returns the point whose x is min.x, (min.x + max.x) / 2 or max.x
\* for Left, Center or Right and whose y is min.y, (min.y + max.y) / 2 or max.y
\* for Top, Center or Bottom (here in halves), so CenterCenter is the midpoint,
\* TopLeft is min and BottomRight is max; any other anchor fails with an error.
AnchorConsistency ==
    (last.op = "get_anchor" /\ bounding_box(heap, last.d) # Degenerate) =>
        LET box == bounding_box(heap, last.d)
            x   == CASE last.anchor \in LeftAnchors  -> 2 * box[1][1]
                     [] last.anchor \in RightAnchors -> 2 * box[2][1]
                     [] OTHER -> box[1][1] + box[2][1]
            y   == CASE last.anchor \in TopAnchors    -> 2 * box[1][2]
                     [] last.anchor \in BottomAnchors -> 2 * box[2][2]
                     [] OTHER -> box[1][2] + box[2][2]
        IN  IF last.anchor \in Anchors
            THEN last.err = "" /\ last.pt = Vector2(x, y)
            ELSE last.err # ""

\* the bottom centre was taken of a Group whose box has a half-integer centre
AnchorWitness ==
    /\ last.op = "get_anchor"
    /\ last.anchor = Anchor.BottomCenter
    /\ heap.d[last.d].type = DiagramType.Diagram
    /\ bounding_box(heap, last.d) # Degenerate
    /\ last.pt[1] % 2 = 1
    /\ bounding_box(heap, last.d)[1][2] # bounding_box(heap, last.d)[2][2]

\* C12: get_parametric_point(t) fails with the not-implemented error exactly
\* when the path has more than 2 points, and leaves the heap as it was; on a
\* path of 2 points s, e it returns s + t * (e - s) (here in halves, t = t2 / 2),
\* which is s at t = 0 and e at t = 1, and (2, 1) at t = 1/2 on (0,0)-(4,2).
ParametricPath ==
    [][last'.op = "get_parametric_point" =>
          LET points == heap.p[last'.path].points
              s      == points[1]
              e      == points[2]
          IN  /\ heap' = heap
              /\ (last'.err = "Get Parametric Point For n>2 is Not Implemented yet") <=> Len(points) > 2
              /\ Len(points) = 2 =>
                    /\ last'.err = ""
                    /\ last'.pt[1] = 2 * s[1] + last'.t * (e[1] - s[1])
                    /\ last'.pt[2] = 2 * s[2] + last'.t * (e[2] - s[2])
                    /\ last'.t = 0 => last'.pt = Vector2(2 * s[1], 2 * s[2])
                    /\ last'.t = 2 => last'.pt = Vector2(2 * e[1], 2 * e[2])
              /\ (points = Segment /\ last'.t = 1) => last'.pt = Vector2(2 * 2, 2 * 1)]_vars

\* the point at t = 1/2 was taken of a segment of a Polygon that does not start
\* at (0, 0), and it is neither end of the segment
ParametricWitness ==
    /\ last.op = "get_parametric_point"
    /\ last.err = ""
    /\ last.t = 1
    /\ Len(heap.p[last.path].points) = 2
    /\ heap.p[last.path].points[1] # Vector2(0, 0)
    /\ \E id \in Ids : \E nm \in DOMAIN heap.d[id].paths : heap.d[id].paths[nm] = last.path
    /\ last.pt[2] % 2 = 1

(***************************************************************************)
(* Construction: the constructors and the two attaching calls, made by a   *)
(* caller on the objects it holds, between the calls of Next.              *)
(***************************************************************************)
NameLists == {<<>>, <<"a">>, <<"z", "a">>}

\* the lists of one or two of the objects S
ListsOf(S) == {<<x>> : x \in S} \cup {<<x, y>> : x \in S, y \in S}

\* a call that returned nothing or threw: the heap as the call left it
Called(k, call) ==
    /\ heap' = k.h
    /\ last' = [call EXCEPT !.r = k.r, !.err = k.err]
    /\ nops' = nops + 1

NewDiagram ==
    /\ nops < MaxOps
    /\ \E type_ \in {DiagramType.Polygon, DiagramType.Curve, DiagramType.Diagram} :
           \E k \in {new_Diagram(heap, type_)} : Called(k, [NoCall EXCEPT !.op = "new Diagram"])

NewPath ==
    /\ nops < MaxOps
    /\ \E points \in {Segment, Zigzag} :
           \E k \in {new_Path(heap, points)} : Called(k, [NoCall EXCEPT !.op = "new Path"])

\* no point, two points, three, and four that close the figure
PolygonPoints == {<<>>, Segment, Triangle, Append(Triangle, Vector2(0, 0))}

\* no name, fewer names than paths, more names than paths, a name that is the
\* default name of a later path, and a name given twice
PolygonNames == {<<>>, <<"a">>, <<"z", "a", "b", "c">>, <<"path1">>, <<"a", "a">>}

Polygon ==
    /\ nops < MaxOps
    /\ \E points \in PolygonPoints, names \in PolygonNames :
           \E k \in {polygon(heap, points, names)} :
               Called(k, [NoCall EXCEPT !.op = "polygon", !.points = points, !.names = names])

\* a child that holds the node would close a cycle, on which copy throws:
\* such calls are left out
AddChilds ==
    /\ nops < MaxOps
    /\ \E d \in Ids, names \in NameLists :
           \E childs \in ListsOf({c \in Ids : d \notin Reach(heap, c)}) :
               \E k \in {add_childs(heap, d, childs, names)} : Called(k, [NoCall EXCEPT !.op = "add_childs", !.d = d])

AddPaths ==
    /\ nops < MaxOps
    /\ \E d \in Ids, names \in NameLists :
           \E paths \in ListsOf(1..Len(heap.p)) :
               \E k \in {add_paths(heap, d, paths, names)} : Called(k, [NoCall EXCEPT !.op = "add_paths", !.d = d])

BuildInit ==
    /\ heap \in Scenes \cup {EmptyHeap}
    /\ last = NoCall
    /\ nops = 0

BuildNext ==
    \/ NewDiagram
    \/ NewPath
    \/ Polygon
    \/ AddChilds
    \/ AddPaths
    \/ Next

SpecBuild == BuildInit /\ [][BuildNext]_vars

\* C11: polygon(points, names) on n points fails with an error when n < 3, and
\* when n >= 3 returns a Polygon with exactly n - 1 paths, path i (from 0) the
\* segment from points[i] to points[i+1] under the name names[i] when
\* i < len(names) and 'path' + i otherwise; no segment closes the figure.
PolygonConstruction ==
    last.op = "polygon" =>
        LET n == Len(last.points)
        IN  IF n < 3 THEN last.err # ""
            ELSE /\ last.err = ""
                 /\ heap.d[last.r].type = DiagramType.Polygon
                 /\ heap.d[last.r].children = EmptyMap
                 /\ Cardinality(DOMAIN heap.d[last.r].paths) = n - 1
                 /\ \A i \in 1..(n - 1) :
                       LET nm == IF i <= Len(last.names) THEN last.names[i]
                                 ELSE "path" \o ToString(i - 1)
                       IN  /\ nm \in DOMAIN heap.d[last.r].paths
                           /\ heap.p[heap.d[last.r].paths[nm]].points
                                  = <<last.points[i], last.points[i + 1]>>

\* C4: in every heap the calls can reach, a Polygon or Curve node has no
\* children and a Group node has no paths, and add_paths on a Group fails with
\* an error.
KindInvariant ==
    /\ \A i \in Ids :
          /\ heap.d[i].type \in {DiagramType.Polygon, DiagramType.Curve} => heap.d[i].children = EmptyMap
          /\ heap.d[i].type = DiagramType.Diagram => heap.d[i].paths = EmptyMap
    /\ (last.op = "add_paths" /\ heap.d[last.d].type = DiagramType.Diagram) => last.err # ""

(***************************************************************************)
(* Plots: plotv on the data and the options drawn at the start.            *)
(***************************************************************************)
\* the longest data
MaxData == 5

\* a point inside the default ranges, one on their corner, one outside, and one
\* that is not a number
DataPoints == {Vector2(0, 0), Vector2(2, -2), Vector2(3, 0), Vector2(NaN, 0)}

RECURSIVE SeqsUpTo(_, _)
\* the sequences over S of length n at most
SeqsUpTo(S, n) ==
    IF n = 0 THEN {<<>>}
    ELSE LET shorter == SeqsUpTo(S, n - 1)
         IN  shorter \cup {Append(s, x) : s \in {q \in shorter : Len(q) = n - 1}, x \in S}

\* no options, one range given, both given
AxesOptions ==
    {EmptyMap, [xrange |-> <<1, 3>>], [xrange |-> <<0, 3>>, yrange |-> <<-1, 0>>]}

PlotInit ==
    /\ heap = EmptyHeap
    /\ nops = 0
    /\ \E data \in SeqsUpTo(DataPoints, MaxData), axes_options \in AxesOptions :
           last = [NoCall EXCEPT !.data = data, !.axes_options = axes_options]

Plotv ==
    /\ last.op = "none"
    /\ last' = [last EXCEPT !.op = "plotv", !.segments = plotv_segments(last.data, last.axes_options)]
    /\ nops' = nops + 1
    /\ UNCHANGED heap

PlotNext == Plotv

SpecPlot == PlotInit /\ [][PlotNext]_vars

\* the range a plot is cut to: the one given, or else the default
RangeOf(axes_options, key) ==
    IF key \in DOMAIN axes_options THEN axes_options[key] ELSE <<-2, 2>>

\* the point is inside both ranges, the bounds included
InRange(p, axes_options) ==
    /\ p[1] # NaN /\ p[2] # NaN
    /\ RangeOf(axes_options, "xrange")[1] <= p[1] /\ p[1] <= RangeOf(axes_options, "xrange")[2]
    /\ RangeOf(axes_options, "yrange")[1] <= p[2] /\ p[2] <= RangeOf(axes_options, "yrange")[2]

\* the maximal runs <<a, b>> of two or more consecutive in-range points of data
Runs(data, axes_options) ==
    {run \in (1..Len(data)) \X (1..Len(data)) :
        /\ run[1] < run[2]
        /\ \A i \in run[1]..run[2] : InRange(data[i], axes_options)
        /\ run[1] = 1 \/ ~InRange(data[run[1] - 1], axes_options)
        /\ run[2] = Len(data) \/ ~InRange(data[run[2] + 1], axes_options)}

\* C13: the segments plotv makes of data are the maximal runs of consecutive
\* in-range points (bounds inclusive) of two points or more, in the order of
\* data: no out-of-range point is in a segment, a run of one point is dropped,
\* and every point of a longer run is in exactly one segment.
PlotSegmentation ==
    last.op = "plotv" =>
        LET runs == Runs(last.data, last.axes_options)
        IN  /\ Len(last.segments) = Cardinality(runs)
            /\ \A k \in 1..Len(last.segments) :
                  \E run \in runs :
                      /\ Cardinality({q \in runs : q[1] < run[1]}) = k - 1
                      /\ last.segments[k] = SubSeq(last.data, run[1], run[2])

\* two segments were made of data that has a point on the bound of the range
\* and a point outside it
PlotWitness ==
    /\ last.op = "plotv"
    /\ Len(last.segments) = 2
    /\ last.axes_options = EmptyMap
    /\ \E i \in 1..2 : \E j \in DOMAIN last.segments[i] : last.segments[i][j] = Vector2(2, -2)
    /\ \E i \in DOMAIN last.data : last.data[i] = Vector2(NaN, 0)

(***************************************************************************)
(* Tables: fixed_size on the array of diagrams and the sizes drawn at the  *)
(* start, the diagrams being objects of ScenePair.                         *)
(***************************************************************************)
\* the most rows of an array
MaxRows == 3

\* rows of no entry, one, two and three, of the Curve that was moved and the
\* Group that holds it, with entries left undefined
TableRows == {<<>>, <<2>>, <<NoDiagram, 3>>, <<3, NoDiagram, 2>>}

\* one size, two, and more than there are rows or columns
SizeLists == {<<2>>, <<4, 2>>, <<2, 6, 4, 8>>}

TableInit ==
    /\ heap = ScenePair
    /\ nops = 0
    /\ \E diagrams \in SeqsUpTo(TableRows, MaxRows), rowsizes \in SizeLists, colsizes \in SizeLists :
           last = [NoCall EXCEPT !.diagrams = diagrams, !.rowsizes = rowsizes, !.colsizes = colsizes]

FixedSize ==
    /\ last.op = "none"
    /\ \E k \in {fixed_size(heap, last.diagrams, last.rowsizes, last.colsizes)} :
           /\ heap' = k.h
           /\ last' = [last EXCEPT !.op = "fixed_size", !.table = k.r]
    /\ nops' = nops + 1

TableNext == FixedSize

SpecTable == TableInit /\ [][TableNext]_vars

RECURSIVE SumTo(_, _)
\* sizes[1] + ... + sizes[n], a size past the end of the list being its last
SizeAt(sizes, i) == IF i <= Len(sizes) THEN sizes[i] ELSE sizes[Len(sizes)]

SumTo(sizes, n) == IF n = 0 THEN 0 ELSE SumTo(sizes, n - 1) + SizeAt(sizes, n)

\* the midpoint of the grid cell at row r, column c (from 1)
Midpoint(rowsizes, colsizes, r, c) ==
    Vector2(SumTo(colsizes, c - 1) + SizeAt(colsizes, c) \div 2,
            SumTo(rowsizes, r - 1) + SizeAt(rowsizes, r) \div 2)

\* the number of columns of an array: the length of its longest row
Columns(diagrams) ==
    IF diagrams = <<>> THEN 0
    ELSE CHOOSE n \in {Len(diagrams[r]) : r \in DOMAIN diagrams} :
             \A r \in DOMAIN diagrams : Len(diagrams[r]) <= n

\* the cells <<r, c>> of an array that hold a diagram
Defined(diagrams) ==
    {rc \in (DOMAIN diagrams) \X (1..Columns(diagrams)) :
        rc[2] <= Len(diagrams[rc[1]]) /\ diagrams[rc[1]][rc[2]] # NoDiagram}

\* the cell is before the other, row by row
Before(a, b) == a[1] < b[1] \/ (a[1] = b[1] /\ a[2] < b[2])

\* C14: fixed_size(diagrams, rowsizes, colsizes) places every defined
\* diagrams[r][c] so that its origin is the midpoint of the grid cell (r, c),
\* x = colsizes[0] + ... + colsizes[c-1] + colsizes[c] / 2 and
\* y = rowsizes[0] + ... + rowsizes[r-1] + rowsizes[r] / 2, a sizes list that
\* is too short being extended by its last value; an undefined cell is
\* skipped, and get_points of the table returned gives these midpoints by
\* [row][column].
TablePlacement ==
    last.op = "fixed_size" =>
        LET diagrams == last.diagrams
            grid     == last.table.children[2].children
            cells    == Defined(diagrams)
            Mid(rc)  == Midpoint(last.rowsizes, last.colsizes, rc[1], rc[2])
        IN  /\ get_points(last.table)
                  = [r \in DOMAIN diagrams |-> [c \in 1..Columns(diagrams) |-> Mid(<<r, c>>)]]
            /\ Len(grid) = Cardinality(cells)
            /\ \A k \in 1..Len(grid) :
                  \E rc \in cells :
                      /\ Cardinality({q \in cells : Before(q, rc)}) = k - 1
                      /\ grid[k].origin = Mid(rc)
                      /\ heap.d[grid[k].ref].origin = Mid(rc)
                      /\ Val(heap, grid[k].ref)
                            = Shifted(Val(heap, diagrams[rc[1]][rc[2]]),
                                      Vector2_sub(Mid(rc), heap.d[diagrams[rc[1]][rc[2]]].origin))

\* a table of three rows and three columns was made with two row sizes and two
\* column sizes, the last of them not the first, with a diagram in the third
\* column and a diagram in the third row, and with a cell left undefined
TableWitness ==
    /\ last.op = "fixed_size"
    /\ Len(last.diagrams) = 3
    /\ Columns(last.diagrams) = 3
    /\ last.rowsizes = <<4, 2>>
    /\ last.colsizes = <<4, 2>>
    /\ \E rc \in Defined(last.diagrams) : rc[2] = 3
    /\ \E rc \in Defined(last.diagrams) : rc[1] = 3
    /\ Cardinality(Defined(last.diagrams)) < 9
    /\ Len(last.table.children[2].children) >= 3

====
